---- MODULE Spec2Model ----
(***************************************************************************)
(* Facial-verification gate of the job board: the AuthProvider context,    *)
(* the FacialProtectionWrapper (both source variants), the navigation      *)
(* lockout, and the page flows that feed the gate (login form,             *)
(* /login-facial, /setup-facial).                                          *)
(***************************************************************************)
EXTENDS Naturals, Sequences, FiniteSets

(* ------------------------------ bounds --------------------------------- *)
MaxInFlight == 2
MaxAttempts == 2
MaxStreams == 2

(* ------------------------------ values --------------------------------- *)
NoUser == "none"
Users == {"A", "B"}
MaybeUser == Users \cup {NoUser}

\* boolean | null of hasFacialSetup
HNull == "null"
HTrue == "true"
HFalse == "false"
Tri == {HNull, HTrue, HFalse}

\* paths are sequences of tokens, so that startsWith is a real prefix test
PLogin == <<"/login">>
PLoginFacial == <<"/login", "-facial">>
PSetupFacial == <<"/setup-facial">>
PHome == <<"/">>
PJobs == <<"/jobs">>
Routes == {PLogin, PLoginFacial, PSetupFacial, PHome, PJobs}

UNRESTRICTED_ROUTES ==
  { <<"/login">>, <<"/signup">>, <<"/setup-facial">>, <<"/login", "-facial">>,
    <<"/terms">>, <<"/privacy">>, <<"/cookies">> }

StartsWith(p, r) == Len(r) <= Len(p) /\ SubSeq(p, 1, Len(r)) = r

IsUnrestricted(p) == \E r \in UNRESTRICTED_ROUTES : StartsWith(p, r)

\* the two sources of the wrapper
VPlain == "plain"
VFlag == "flag"

VARIABLES
  fbUser, enrolled, authReady,
  user, profile, hasFacialSetup, loginScanFace, isLoading, inflight,
  variant, IS_DEEPFACE_REQUIRED,
  mounted, pathname, marker, hasRedirected, navigationBlocked,
  blockCleanup, popstate, beforeunload, rendered, issued, pushed,
  currentStep, userData, setupUser, existingFaceDescriptor,
  verificationAttempts, facialDataFor, verifying,
  widgetMounted, mode, hasDescriptor, widgetIsLoading, isCapturing,
  serverReady, cameraReady, step, streamRef, initializingRef,
  healthPending, mediaPending, orphanPending, capturePending,
  requested, liveStreams, completeCalls

authVars == <<user, profile, hasFacialSetup, loginScanFace, isLoading>>
wrapVars == <<hasRedirected, navigationBlocked, blockCleanup, popstate,
              beforeunload, rendered, issued, pushed>>
pageVars == <<currentStep, userData, setupUser, existingFaceDescriptor,
              verificationAttempts, facialDataFor>>
confVars == <<variant, IS_DEEPFACE_REQUIRED>>
gateVars == <<fbUser, enrolled, authReady, authVars, inflight, confVars,
              mounted, pathname, marker, wrapVars, pageVars, verifying>>
\* the FacialRecognition widget: its state and refs, its pending calls, and
\* the camera streams whose tracks have not been stopped
camVars == <<widgetMounted, mode, hasDescriptor, widgetIsLoading, isCapturing,
             serverReady, cameraReady, step, streamRef, initializingRef,
             healthPending, mediaPending, orphanPending, capturePending,
             requested, liveStreams, completeCalls>>
vars == <<gateVars, camVars>>

(* ------------------------- AuthProvider derived ------------------------ *)
NeedsFacialSetupBroken(u, hfs) == u # NoUser /\ hfs = HFalse
NeedsFacialSetup(u, hfs) == u # NoUser /\ hfs # HTrue

NeedsLoginScan(u, hfs, lsf) == u # NoUser /\ hfs = HTrue /\ ~lsf

\* the context value a render of the wrapper reads
Ctx(u, hfs, lsf, load, path, mk) ==
  [user |-> u, hasFacialSetup |-> hfs, loginScanFace |-> lsf,
   isLoading |-> load, pathname |-> path, marker |-> mk,
   needsFacialSetup |-> NeedsFacialSetup(u, hfs),
   needsLoginScan |-> NeedsLoginScan(u, hfs, lsf)]

CurCtx == Ctx(user, hasFacialSetup, loginScanFace, isLoading, pathname, marker)

(* ----------------------------- gate decision --------------------------- *)
\* the cascade of the redirect effect
GateDecision(c) ==
  IF c.isLoading THEN "LOADING"
  ELSE IF IsUnrestricted(c.pathname) THEN "CLEAR"
  ELSE IF c.user = NoUser THEN "UNAUTHENTICATED"
  ELSE IF c.needsFacialSetup THEN "NEEDS_ENROLLMENT"
  ELSE IF c.needsLoginScan THEN "NEEDS_VERIFICATION"
  ELSE "CLEAR"

(* ------------------------- wrapper: render phase ----------------------- *)
BlockSetupAnyRoute(c) ==
  ~c.isLoading /\ c.user # NoUser /\ c.needsFacialSetup /\ ~c.marker

BlockSetup(c) ==
  ~c.isLoading /\ c.user # NoUser /\ c.needsFacialSetup
  /\ ~IsUnrestricted(c.pathname) /\ ~c.marker

BlockScan(c) ==
  ~c.isLoading /\ c.user # NoUser /\ c.needsLoginScan
  /\ ~IsUnrestricted(c.pathname)

\* body of the plain wrapper after its hooks: [hr, issued, rendered]
RenderPlain(c, hr) ==
  IF BlockSetup(c)
  THEN [hr |-> TRUE, issued |-> IF hr THEN <<>> ELSE <<PSetupFacial>>,
        rendered |-> "denied"]
  ELSE IF BlockScan(c)
  THEN [hr |-> TRUE, issued |-> IF hr THEN <<>> ELSE <<PLoginFacial>>,
        rendered |-> "verify"]
  ELSE IF c.isLoading
  THEN [hr |-> hr, issued |-> <<>>, rendered |-> "loading"]
  ELSE [hr |-> hr, issued |-> <<>>, rendered |-> "children"]

\* body of the flag wrapper after its hooks: the two checks do not return
RenderFlag(c, hr) ==
  LET s1 == IF BlockSetup(c) /\ IS_DEEPFACE_REQUIRED /\ ~hr
            THEN [hr |-> TRUE, issued |-> <<PSetupFacial>>]
            ELSE [hr |-> hr, issued |-> <<>>]
      s2 == IF BlockScan(c) /\ IS_DEEPFACE_REQUIRED /\ ~s1.hr
            THEN [hr |-> TRUE, issued |-> s1.issued \o <<PLoginFacial>>]
            ELSE s1
  IN [hr |-> s2.hr, issued |-> s2.issued,
      rendered |-> IF c.isLoading THEN "loading" ELSE "children"]

Render(c, hr) ==
  IF variant = VPlain THEN RenderPlain(c, hr) ELSE RenderFlag(c, hr)

(* --------------------------- wrapper: effects -------------------------- *)
\* effect 1: reset of the redirect flag, deps [pathname]
ResetRedirected(c, prev, hr, mountRun) ==
  IF mountRun \/ c.pathname # prev.pathname THEN FALSE ELSE hr

BlockDepsNoNeeds(c) == <<c.user, c.pathname, c.isLoading>>

BlockDeps(c) ==
  <<c.user, c.needsFacialSetup, c.needsLoginScan, c.pathname, c.isLoading>>

ShouldBlockSetupOnly(c) ==
  ~IsUnrestricted(c.pathname) /\ c.user # NoUser /\ c.needsFacialSetup

ShouldBlock(c) ==
  ~IsUnrestricted(c.pathname) /\ c.user # NoUser
  /\ (c.needsFacialSetup \/ c.needsLoginScan)

Front(s) == SubSeq(s, 1, Len(s) - 1)

\* the cleanup the navigation-block effect returned on its last run
BlockCleanupLeaky(b) ==
  [nb |-> FALSE, cleanup |-> FALSE, pop |-> b.pop, unl |-> b.unl]

BlockCleanup(b) ==
  [nb |-> FALSE, cleanup |-> FALSE, pop |-> Front(b.pop), unl |-> Front(b.unl)]

\* effect 3 body; b = [nb, cleanup, pop, unl]
BlockBody(c, b) ==
  IF c.isLoading THEN b
  ELSE IF variant = VFlag /\ ~IS_DEEPFACE_REQUIRED THEN b
  ELSE IF ShouldBlock(c) /\ ~b.nb
  THEN [nb |-> TRUE, cleanup |-> TRUE,
        pop |-> Append(b.pop, IF c.needsFacialSetup THEN PSetupFacial
                              ELSE PLoginFacial),
        unl |-> Append(b.unl, IF c.needsFacialSetup THEN "setup-required"
                              ELSE "scan-face")]
  ELSE [b EXCEPT !.nb = FALSE]

BlockEffect(c, prev, b, mountRun) ==
  IF mountRun \/ BlockDeps(c) # BlockDeps(prev)
  THEN BlockBody(c, IF b.cleanup THEN BlockCleanup(b) ELSE b)
  ELSE b

RedirectDeps(c) ==
  <<c.user, c.hasFacialSetup, c.loginScanFace, c.isLoading,
    c.needsFacialSetup, c.needsLoginScan, c.pathname>>

\* effect 4 body: [hr, issued]
RedirectBody(c, hr) ==
  IF c.isLoading THEN [hr |-> hr, issued |-> <<>>]
  ELSE IF variant = VFlag /\ ~IS_DEEPFACE_REQUIRED
  THEN [hr |-> hr, issued |-> <<>>]
  ELSE IF hr THEN [hr |-> hr, issued |-> <<>>]
  ELSE IF IsUnrestricted(c.pathname) THEN [hr |-> hr, issued |-> <<>>]
  ELSE IF c.user = NoUser THEN [hr |-> TRUE, issued |-> <<PLogin>>]
  ELSE IF c.needsFacialSetup THEN [hr |-> TRUE, issued |-> <<PSetupFacial>>]
  ELSE IF c.needsLoginScan THEN [hr |-> TRUE, issued |-> <<PLoginFacial>>]
  ELSE [hr |-> hr, issued |-> <<>>]

RedirectEffect(c, prev, hr, mountRun) ==
  IF mountRun \/ RedirectDeps(c) # RedirectDeps(prev)
  THEN RedirectBody(c, hr)
  ELSE [hr |-> hr, issued |-> <<>>]

\* one render of the wrapper with context c followed by its effects
Commit(c, mountRun) ==
  LET r == Render(c, hasRedirected)
      hr1 == ResetRedirected(c, CurCtx, r.hr, mountRun)
      b == BlockEffect(c, CurCtx,
                       [nb |-> navigationBlocked, cleanup |-> blockCleanup,
                        pop |-> popstate, unl |-> beforeunload], mountRun)
      e == RedirectEffect(c, CurCtx, hr1, mountRun)
  IN /\ hasRedirected' = e.hr
     /\ navigationBlocked' = b.nb
     /\ blockCleanup' = b.cleanup
     /\ popstate' = b.pop
     /\ beforeunload' = b.unl
     /\ rendered' = r.rendered
     /\ issued' = r.issued \o e.issued
     /\ pushed' = 0

\* a step that does not render the wrapper
Quiet ==
  /\ UNCHANGED <<hasRedirected, navigationBlocked, blockCleanup, popstate,
                 beforeunload, rendered>>
  /\ issued' = <<>>
  /\ pushed' = 0

\* the wrapper reacts to a new context value when it is mounted
React(c) == IF mounted THEN Commit(c, FALSE) ELSE Quiet

\* pending continuations: how many of each (kind, uid) are in flight
Kinds == {"auth", "refresh"}
Lookups == [kind : Kinds, uid : Users]

RECURSIVE SumOver(_, _)
SumOver(f, S) ==
  IF S = {} THEN 0
  ELSE LET x == CHOOSE y \in S : TRUE IN f[x] + SumOver(f, S \ {x})

\* lookups of the context plus the capture and the getFacialData call of the
\* verification page
InFlightCount ==
  SumOver(inflight, Lookups) + (IF verifying # NoUser THEN 1 ELSE 0)
    + (IF facialDataFor # NoUser THEN 1 ELSE 0)

CanStart == InFlightCount < MaxInFlight

Started(k, u) ==
  [inflight EXCEPT ![[kind |-> k, uid |-> u]] = @ + 1]

Pending == {l \in Lookups : inflight[l] > 0}

(* ------------------------------ initial state -------------------------- *)
PageInit ==
  /\ currentStep = "credentials"
  /\ userData = NoUser
  /\ setupUser = NoUser
  /\ existingFaceDescriptor = NoUser
  /\ verificationAttempts = 0
  /\ facialDataFor = NoUser

\* pages are children of the route: a navigation mounts them afresh
PageReset ==
  /\ currentStep' = "credentials"
  /\ userData' = NoUser
  /\ setupUser' = NoUser
  /\ existingFaceDescriptor' = NoUser
  /\ verificationAttempts' = 0
  /\ facialDataFor' = NoUser

\* no capture widget on screen, no camera in use
CamIdle ==
  /\ widgetMounted = FALSE
  /\ mode = "verify" /\ hasDescriptor = FALSE
  /\ widgetIsLoading = TRUE /\ isCapturing = FALSE
  /\ serverReady = FALSE /\ cameraReady = FALSE
  /\ step = "initializing"
  /\ streamRef = 0 /\ initializingRef = FALSE
  /\ healthPending = FALSE /\ mediaPending = FALSE
  /\ orphanPending = 0 /\ capturePending = "none"
  /\ requested = 0 /\ liveStreams = {}
  /\ completeCalls = 0

\* state after the first render of the root layout: the provider's useState
\* initial values, the wrapper showing the spinner, a persisted or absent
\* Firebase session whose first event has not been delivered yet
Init ==
  /\ fbUser \in MaybeUser
  /\ enrolled \in SUBSET Users
  /\ authReady = FALSE
  /\ user = NoUser
  /\ profile = NoUser
  /\ hasFacialSetup = HNull
  /\ loginScanFace = FALSE
  /\ isLoading = TRUE
  /\ inflight = [l \in Lookups |-> 0]
  /\ variant \in {VPlain, VFlag}
  /\ IS_DEEPFACE_REQUIRED \in BOOLEAN
  /\ mounted = TRUE
  /\ pathname \in Routes
  /\ marker = FALSE
  /\ hasRedirected = FALSE
  /\ navigationBlocked = FALSE
  /\ blockCleanup = FALSE
  /\ popstate = <<>>
  /\ beforeunload = <<>>
  /\ rendered = "loading"
  /\ issued = <<>>
  /\ pushed = 0
  /\ PageInit
  /\ verifying = NoUser
  /\ CamIdle

(* ------------------------------ AuthProvider --------------------------- *)

\* subscribeToAuthChanges callback up to its first await (and its else branch)
OnAuthChangeNoReset(u) ==
  /\ user' = u
  /\ UNCHANGED loginScanFace
  /\ IF u # NoUser
     THEN /\ inflight' = Started("auth", u)
          /\ UNCHANGED <<profile, hasFacialSetup, isLoading>>
          /\ React(Ctx(u, hasFacialSetup, loginScanFace, isLoading, pathname, marker))
     ELSE /\ UNCHANGED inflight
          /\ profile' = NoUser
          /\ hasFacialSetup' = HNull
          /\ isLoading' = FALSE
          /\ React(Ctx(NoUser, HNull, loginScanFace, FALSE, pathname, marker))

OnAuthChange(u) ==
  /\ user' = u
  /\ loginScanFace' = FALSE
  /\ IF u # NoUser
     THEN /\ inflight' = Started("auth", u)
          /\ UNCHANGED <<profile, hasFacialSetup, isLoading>>
          /\ React(Ctx(u, hasFacialSetup, FALSE, isLoading, pathname, marker))
     ELSE /\ UNCHANGED inflight
          /\ profile' = NoUser
          /\ hasFacialSetup' = HNull
          /\ isLoading' = FALSE
          /\ React(Ctx(NoUser, HNull, FALSE, FALSE, pathname, marker))

\* the first event Firebase delivers after the subscription
AuthInit ==
  /\ mounted /\ ~authReady
  /\ fbUser # NoUser => CanStart
  /\ authReady' = TRUE
  /\ OnAuthChange(fbUser)
  /\ UNCHANGED <<fbUser, enrolled, confVars, camVars, verifying, mounted, pathname, marker, pageVars>>

LookupData(uid) == IF uid \in enrolled THEN HTrue ELSE HFalse

\* what the continuation of the callback writes: [profile, hfs]
AuthResult(l, outcome) ==
  IF outcome = "throw" THEN [profile |-> profile, hfs |-> HFalse]
  ELSE [profile |-> IF outcome = "noprofile" THEN profile ELSE l.uid,
        hfs |-> IF outcome = "fail" THEN HFalse ELSE LookupData(l.uid)]

\* isLoading as the callback leaves it
LoadingAfterLookupNoFinally(outcome) == outcome = "throw" /\ isLoading

LoadingAfterLookup(outcome) == FALSE

\* the callback resumes after getIdToken / setServerSession / Promise.all
CompleteAuthLookup(l, outcome) ==
  /\ mounted /\ l \in Pending /\ l.kind = "auth"
  /\ inflight' = [inflight EXCEPT ![l] = @ - 1]
  /\ LET r == AuthResult(l, outcome)
     IN /\ profile' = r.profile
        /\ hasFacialSetup' = r.hfs
        /\ isLoading' = LoadingAfterLookup(outcome)
        /\ React(Ctx(user, r.hfs, loginScanFace, LoadingAfterLookup(outcome),
                     pathname, marker))
  /\ UNCHANGED <<fbUser, enrolled, authReady, user, loginScanFace, confVars, camVars, verifying,
                 mounted, pathname, marker, pageVars>>

RefreshResult(l, outcome) ==
  IF outcome = "throw" THEN hasFacialSetup
  ELSE IF outcome = "fail" THEN HFalse
  ELSE LookupData(l.uid)

\* refreshFacialStatus resumes after hasFacialData
CompleteRefresh(l, outcome) ==
  /\ mounted /\ l \in Pending /\ l.kind = "refresh"
  /\ inflight' = [inflight EXCEPT ![l] = @ - 1]
  /\ hasFacialSetup' = RefreshResult(l, outcome)
  /\ React(Ctx(user, RefreshResult(l, outcome), loginScanFace, isLoading,
               pathname, marker))
  /\ UNCHANGED <<fbUser, enrolled, authReady, user, profile, loginScanFace,
                 isLoading, confVars, camVars, verifying, mounted, pathname, marker, pageVars>>

\* signOut of the context: the setters run after both awaits resolved
SignOutClearsAfterServer(outcome) == outcome # "serverThrows"

SignOutClears(outcome) == outcome = "ok"

SignOut(outcome) ==
  /\ mounted /\ authReady
  /\ IF SignOutClears(outcome)
     THEN /\ fbUser' = NoUser
          /\ user' = NoUser
          /\ profile' = NoUser
          /\ hasFacialSetup' = HNull
          /\ loginScanFace' = FALSE
          /\ isLoading' = IF fbUser # NoUser THEN FALSE ELSE isLoading
          /\ React(Ctx(NoUser, HNull, FALSE,
                       IF fbUser # NoUser THEN FALSE ELSE isLoading,
                       pathname, marker))
     ELSE /\ UNCHANGED <<fbUser, authVars>>
          /\ Quiet
  /\ UNCHANGED <<enrolled, authReady, inflight, confVars, camVars, verifying, mounted, pathname,
                 marker, pageVars>>

(* -------------------------- login form (/login) ------------------------ *)
\* logoutUser of the Firebase client: the subscriber is notified when the
\* uid changes
LogoutUser ==
  /\ fbUser' = NoUser
  /\ IF fbUser # NoUser
     THEN OnAuthChange(NoUser)
     ELSE UNCHANGED <<authVars, inflight>> /\ Quiet

\* LoginFormWithFacial.onSubmit: credential sign-in, then the form's own
\* enrollment check decides the next step
FormSubmit(u, outcome) ==
  /\ mounted /\ authReady /\ pathname = PLogin
  /\ currentStep = "credentials"
  /\ u # fbUser /\ CanStart
  /\ fbUser' = u
  /\ OnAuthChange(u)
  /\ IF outcome = "ok" /\ u \in enrolled
     THEN currentStep' = "facial" /\ userData' = u
     ELSE UNCHANGED <<currentStep, userData>>
  /\ UNCHANGED <<enrolled, authReady, confVars, camVars, verifying, mounted, pathname, marker,
                 setupUser, existingFaceDescriptor, verificationAttempts,
                 facialDataFor>>

\* the mismatch branch of the form's handler
FormMismatch ==
  /\ LogoutUser
  /\ currentStep' = "credentials"

\* LoginFormWithFacial.handleFacialVerification
FormVerify(success) ==
  /\ mounted /\ pathname = PLogin
  /\ currentStep = "facial" /\ userData # NoUser
  /\ IF success
     THEN /\ currentStep' = "complete"
          /\ UNCHANGED <<fbUser, authVars, inflight>> /\ Quiet
     ELSE FormMismatch
  /\ UNCHANGED <<enrolled, authReady, confVars, camVars, verifying, mounted, pathname, marker,
                 userData, setupUser, existingFaceDescriptor,
                 verificationAttempts, facialDataFor>>

\* the timer of the success branch: session cookie, then router.push("/")
FormFinish(ok) ==
  /\ mounted /\ pathname = PLogin /\ currentStep = "complete"
  /\ IF ok
     THEN /\ pathname' = PHome /\ marker' = FALSE
          /\ PageReset
          /\ React(Ctx(user, hasFacialSetup, loginScanFace, isLoading, PHome, FALSE))
          /\ UNCHANGED <<fbUser, authVars, inflight>>
     ELSE /\ LogoutUser
          /\ currentStep' = "credentials"
          /\ UNCHANGED <<pathname, marker, userData, setupUser,
                         existingFaceDescriptor, verificationAttempts,
                         facialDataFor>>
  /\ UNCHANGED <<enrolled, authReady, confVars, camVars, verifying, mounted>>

(* ----------------------- verification page (/login-facial) ------------- *)
\* LoginFacialPage.checkUserAndLoadFacialData up to its await: the effect
\* runs with a signed-in, enrolled identity and calls getFacialData(user.uid)
PageLoad ==
  /\ mounted /\ pathname = PLoginFacial
  /\ user # NoUser /\ hasFacialSetup = HTrue
  /\ facialDataFor = NoUser /\ CanStart
  /\ facialDataFor' = user
  /\ Quiet
  /\ UNCHANGED <<fbUser, enrolled, authReady, authVars, inflight, confVars, camVars, verifying,
                 mounted, pathname, marker, currentStep, userData, setupUser,
                 existingFaceDescriptor, verificationAttempts>>

\* what the continuation stores: the embedding of the uid it asked for
StoredDescriptor(ok, uid) ==
  IF ok /\ uid \in enrolled THEN uid ELSE existingFaceDescriptor

\* getFacialData resolves: setExistingFaceDescriptor and setIsLoading(false),
\* or the catch branch
PageLoadResult(ok) ==
  /\ mounted /\ facialDataFor # NoUser
  /\ facialDataFor' = NoUser
  /\ existingFaceDescriptor' = StoredDescriptor(ok, facialDataFor)
  /\ Quiet
  /\ UNCHANGED <<fbUser, enrolled, authReady, authVars, inflight, confVars, camVars, verifying,
                 mounted, pathname, marker, currentStep, userData, setupUser,
                 verificationAttempts>>

\* isLoading of the page: true until a descriptor has been stored
PageIsLoading == existingFaceDescriptor = NoUser

\* the mismatch branch of the page's handler: toasts only
PageMismatch ==
  UNCHANGED <<fbUser, authVars, inflight>> /\ Quiet

\* the Scan button of the widget on /login-facial: captureAndProcessFace runs
\* up to its first await with the descriptor the page loaded
PageCapture ==
  /\ mounted /\ pathname = PLoginFacial
  /\ existingFaceDescriptor # NoUser
  /\ verifying = NoUser /\ CanStart
  /\ verificationAttempts < MaxAttempts
  /\ verifying' = existingFaceDescriptor
  /\ Quiet
  /\ UNCHANGED <<fbUser, enrolled, authReady, authVars, inflight, confVars, camVars,
                 mounted, pathname, marker, pageVars>>

\* setLoginScanFace of the context
SetLoginScanFace(value) ==
  /\ loginScanFace' = value
  /\ React(Ctx(user, hasFacialSetup, value, isLoading, pathname, marker))

\* verifyFacesDeepFace resolves and the widget calls onComplete(null, isMatch):
\* LoginFacialPage.handleFacialVerification
PageVerify(success) ==
  /\ mounted /\ verifying # NoUser
  /\ verifying' = NoUser
  /\ verificationAttempts' =
       IF pathname = PLoginFacial /\ verificationAttempts < MaxAttempts
       THEN verificationAttempts + 1 ELSE verificationAttempts
  /\ IF success
     THEN /\ SetLoginScanFace(TRUE)
          /\ UNCHANGED <<fbUser, user, profile, hasFacialSetup, isLoading,
                         inflight>>
     ELSE PageMismatch
  /\ UNCHANGED <<enrolled, authReady, confVars, camVars, mounted, pathname, marker,
                 currentStep, userData, setupUser, existingFaceDescriptor,
                 facialDataFor>>

(* ------------------------ enrollment page (/setup-facial) -------------- *)
\* SetupFacialPage.checkUser
SetupCheckUser(ok) ==
  /\ mounted /\ pathname = PSetupFacial
  /\ authReady /\ fbUser # NoUser /\ setupUser = NoUser
  /\ ~(ok /\ fbUser \in enrolled)
  /\ setupUser' = fbUser
  /\ Quiet
  /\ UNCHANGED <<fbUser, enrolled, authReady, authVars, inflight, confVars, camVars, verifying,
                 mounted, pathname, marker, currentStep, userData,
                 existingFaceDescriptor, verificationAttempts, facialDataFor>>

\* SetupFacialPage.handleFacialComplete up to the call of refreshFacialStatus
SetupFacialComplete(stored) ==
  /\ mounted /\ pathname = PSetupFacial /\ setupUser # NoUser
  /\ IF stored
     THEN /\ enrolled' = enrolled \cup {setupUser}
          /\ IF user # NoUser
             THEN /\ CanStart
                  /\ inflight' = Started("refresh", user)
             ELSE UNCHANGED inflight
     ELSE UNCHANGED <<enrolled, inflight>>
  /\ Quiet
  /\ UNCHANGED <<fbUser, authReady, authVars, confVars, camVars, verifying, mounted, pathname,
                 marker, pageVars>>

(* ------------------------------ browser -------------------------------- *)
\* a route change (link, router.push, an applied router.replace)
Navigate(r, mk) ==
  /\ mounted /\ r # pathname
  /\ mk => r = PHome
  /\ pathname' = r /\ marker' = mk
  /\ PageReset
  /\ React(Ctx(user, hasFacialSetup, loginScanFace, isLoading, r, mk))
  /\ UNCHANGED <<fbUser, enrolled, authReady, authVars, inflight, confVars, camVars, verifying,
                 mounted>>

\* a re-render of the wrapper with unchanged context and route
ReRender ==
  /\ mounted
  /\ Commit(CurCtx, FALSE)
  /\ UNCHANGED <<fbUser, enrolled, authReady, authVars, inflight, confVars, camVars, verifying,
                 mounted, pathname, marker, pageVars>>

\* the 3 s timer of the completion-marker effect
MarkerTimer ==
  /\ mounted /\ marker /\ user # NoUser
  /\ marker' = FALSE
  /\ Quiet
  /\ UNCHANGED <<fbUser, enrolled, authReady, authVars, inflight, confVars, camVars, verifying,
                 mounted, pathname, pageVars>>

\* blockNavigation of every registered popstate handler: pushState of the
\* current location, then router.replace(redirectTarget) of its closure
BlockNavigationNoPush(targets) == [pushed |-> 0, issued |-> targets]

BlockNavigation(targets) == [pushed |-> Len(targets), issued |-> targets]

\* back/forward towards the history entry of route r: the registered
\* handlers intercept it; without a handler the browser shows r
PopState(r) ==
  /\ mounted /\ r # pathname
  /\ IF popstate # <<>>
     THEN /\ issued' = BlockNavigation(popstate).issued
          /\ pushed' = BlockNavigation(popstate).pushed
          /\ UNCHANGED <<hasRedirected, navigationBlocked, blockCleanup,
                         popstate, beforeunload, rendered>>
          /\ UNCHANGED <<pathname, marker, pageVars>>
     ELSE /\ pathname' = r /\ marker' = FALSE
          /\ PageReset
          /\ React(Ctx(user, hasFacialSetup, loginScanFace, isLoading, r, FALSE))
  /\ UNCHANGED <<fbUser, enrolled, authReady, authVars, inflight, confVars, camVars,
                 verifying, mounted>>

\* the document goes away: effect cleanups run, pending continuations die
Unmount ==
  /\ mounted
  /\ mounted' = FALSE
  /\ LET b == [nb |-> navigationBlocked, cleanup |-> blockCleanup,
               pop |-> popstate, unl |-> beforeunload]
         a == IF blockCleanup THEN BlockCleanup(b) ELSE b
     IN /\ navigationBlocked' = a.nb
        /\ blockCleanup' = a.cleanup
        /\ popstate' = a.pop
        /\ beforeunload' = a.unl
  /\ rendered' = "none"
  /\ issued' = <<>> /\ pushed' = 0
  /\ inflight' = [l \in Lookups |-> 0]
  /\ PageReset
  /\ verifying' = NoUser
  /\ UNCHANGED <<fbUser, enrolled, authReady, authVars, confVars, camVars, pathname,
                 marker, hasRedirected>>

\* a fresh load of the application at some URL
Mount(r, mk) ==
  /\ ~mounted
  /\ mk => r = PHome
  /\ mounted' = TRUE
  /\ authReady' = FALSE
  /\ user' = NoUser /\ profile' = NoUser /\ hasFacialSetup' = HNull
  /\ loginScanFace' = FALSE /\ isLoading' = TRUE
  /\ pathname' = r /\ marker' = mk
  /\ hasRedirected' = FALSE /\ navigationBlocked' = FALSE
  /\ blockCleanup' = FALSE /\ popstate' = <<>> /\ beforeunload' = <<>>
  /\ rendered' = "loading" /\ issued' = <<>> /\ pushed' = 0
  /\ UNCHANGED <<fbUser, enrolled, inflight, confVars, camVars, verifying, pageVars>>

AuthOutcomes == {"ok", "noprofile", "fail", "throw"}
RefreshOutcomes == {"ok", "fail", "throw"}
SignOutOutcomes == {"ok", "serverThrows", "clientThrows"}
FormOutcomes == {"ok", "error"}

Next ==
  \/ AuthInit
  \/ \E l \in Lookups, o \in AuthOutcomes : CompleteAuthLookup(l, o)
  \/ \E l \in Lookups, o \in RefreshOutcomes : CompleteRefresh(l, o)
  \/ \E o \in SignOutOutcomes : SignOut(o)
  \/ \E u \in Users, o \in FormOutcomes : FormSubmit(u, o)
  \/ \E b \in BOOLEAN : FormVerify(b)
  \/ \E b \in BOOLEAN : FormFinish(b)
  \/ PageLoad
  \/ \E b \in BOOLEAN : PageLoadResult(b)
  \/ PageCapture
  \/ \E b \in BOOLEAN : PageVerify(b)
  \/ \E b \in BOOLEAN : SetupCheckUser(b)
  \/ \E b \in BOOLEAN : SetupFacialComplete(b)
  \/ \E r \in Routes, mk \in BOOLEAN : Navigate(r, mk)
  \/ ReRender
  \/ MarkerTimer
  \/ \E r \in Routes : PopState(r)
  \/ Unmount
  \/ \E r \in Routes, mk \in BOOLEAN : Mount(r, mk)

Spec == Init /\ [][Next]_vars

\* the identity callback is fair: Firebase delivers the first event after the
\* subscription, and every remote call the callback awaits settles
\* (the wrapper of the root layout, verification required)
FairInit == Init /\ variant = VPlain /\ IS_DEEPFACE_REQUIRED

FairSpec ==
  /\ FairInit /\ [][Next]_vars
  /\ WF_vars(AuthInit)
  /\ WF_vars(\E l \in Lookups, o \in AuthOutcomes : CompleteAuthLookup(l, o))

(* ======================= FacialRecognition widget ====================== *)
StreamIds == 1..MaxStreams

\* cleanup: stop every track of streamRef.current and clear the ref
Cleanup(ref, live) == [ref |-> 0, live |-> live \ {ref}]

\* a stream the browser hands out: an id no earlier stream had
FreshStream == requested

\* a page or form renders <FacialRecognition mode=... existingFaceDescriptor=...>
WidgetMount(m, d) ==
  /\ ~widgetMounted /\ requested < MaxStreams
  /\ widgetMounted' = TRUE
  /\ mode' = m /\ hasDescriptor' = d
  /\ widgetIsLoading' = TRUE /\ isCapturing' = FALSE
  /\ serverReady' = FALSE /\ cameraReady' = FALSE
  /\ step' = "initializing"
  /\ streamRef' = 0 /\ initializingRef' = FALSE
  /\ healthPending' = TRUE
  /\ capturePending' = "none"
  /\ completeCalls' = 0
  /\ UNCHANGED <<mediaPending, orphanPending, requested, liveStreams>>
  /\ UNCHANGED gateVars

\* the guard of the camera effect and of initCamera
CanInitCameraAnyServer(server) == ~cameraReady /\ ~initializingRef

CanInitCamera(server) == server /\ ~cameraReady /\ ~initializingRef

\* checkServer resumes after checkDeepFaceHealth; with the server ready the
\* camera effect runs initCamera up to its await of getUserMedia
HealthResult(ok) ==
  /\ widgetMounted /\ healthPending
  /\ healthPending' = FALSE
  /\ widgetIsLoading' = FALSE
  /\ serverReady' = (serverReady \/ ok)
  /\ IF CanInitCamera(serverReady \/ ok)
     THEN /\ initializingRef' = TRUE
          /\ streamRef' = Cleanup(streamRef, liveStreams).ref
          /\ liveStreams' = Cleanup(streamRef, liveStreams).live
          /\ mediaPending' = TRUE
          /\ requested' = requested + 1
     ELSE UNCHANGED <<initializingRef, streamRef, liveStreams, mediaPending,
                      requested>>
  /\ UNCHANGED <<widgetMounted, mode, hasDescriptor, isCapturing, cameraReady,
                 step, orphanPending, capturePending>>
  /\ UNCHANGED <<gateVars, completeCalls>>

\* initCamera resumes after getUserMedia, in a widget that is still mounted
MediaResult(ok) ==
  /\ widgetMounted /\ mediaPending
  /\ mediaPending' = FALSE
  /\ IF ok
     THEN /\ streamRef' = FreshStream
          /\ liveStreams' = liveStreams \cup {FreshStream}
          /\ UNCHANGED initializingRef
     ELSE /\ initializingRef' = FALSE
          /\ UNCHANGED <<streamRef, liveStreams>>
  /\ UNCHANGED <<widgetMounted, mode, hasDescriptor, widgetIsLoading,
                 isCapturing, serverReady, cameraReady, step, healthPending,
                 orphanPending, capturePending, requested>>
  /\ UNCHANGED <<gateVars, completeCalls>>

\* initCamera resumes after getUserMedia when its widget has unmounted: the
\* stream goes into the ref of the dead instance, videoRef.current is null
OrphanMediaResult(ok) ==
  /\ orphanPending > 0
  /\ orphanPending' = orphanPending - 1
  /\ liveStreams' =
       IF ok THEN liveStreams \cup {CHOOSE i \in StreamIds : i \notin liveStreams
                                       /\ i # streamRef}
       ELSE liveStreams
  /\ UNCHANGED <<widgetMounted, mode, hasDescriptor, widgetIsLoading,
                 isCapturing, serverReady, cameraReady, step, streamRef,
                 initializingRef, healthPending, mediaPending, capturePending,
                 requested>>
  /\ UNCHANGED <<gateVars, completeCalls>>

\* video.onloadedmetadata
LoadedMetadata ==
  /\ widgetMounted /\ streamRef # 0 /\ initializingRef /\ ~cameraReady
  /\ cameraReady' = TRUE
  /\ step' = "ready"
  /\ initializingRef' = FALSE
  /\ UNCHANGED <<widgetMounted, mode, hasDescriptor, widgetIsLoading,
                 isCapturing, serverReady, streamRef, healthPending,
                 mediaPending, orphanPending, capturePending, requested,
                 liveStreams>>
  /\ UNCHANGED <<gateVars, completeCalls>>

\* disabled attribute of the Scan Face button
ScanDisabledLoadingOnly == widgetIsLoading

ScanDisabled == widgetIsLoading \/ isCapturing \/ step # "ready"

\* disabled attribute of the Cancel button
CancelDisabled == isCapturing \/ step = "processing"

\* the Scan button: captureAndProcessFace up to its first await
Capture ==
  /\ widgetMounted
  /\ ~ScanDisabled
  /\ isCapturing' = TRUE
  /\ step' = "processing"
  /\ completeCalls' = 0
  /\ capturePending' =
       IF mode = "register" \/ hasDescriptor THEN "detect" ELSE "none"
  /\ UNCHANGED <<widgetMounted, mode, hasDescriptor, widgetIsLoading,
                 serverReady, cameraReady, streamRef, initializingRef,
                 healthPending, mediaPending, orphanPending, requested,
                 liveStreams>>
  /\ UNCHANGED gateVars

\* captureAndProcessFace resumes after detectFaceDeepFace
DetectResult(outcome) ==
  /\ widgetMounted /\ capturePending = "detect"
  /\ IF outcome = "ok"
     THEN /\ capturePending' = IF mode = "register" THEN "none" ELSE "verify"
          /\ completeCalls' =
               IF mode = "register" THEN completeCalls + 1 ELSE completeCalls
          /\ UNCHANGED <<isCapturing, step>>
     ELSE /\ capturePending' = "none"
          /\ isCapturing' = FALSE
          /\ step' = "ready"
          /\ UNCHANGED completeCalls
  /\ UNCHANGED <<widgetMounted, mode, hasDescriptor, widgetIsLoading,
                 serverReady, cameraReady, streamRef, initializingRef,
                 healthPending, mediaPending, orphanPending, requested,
                 liveStreams>>
  /\ UNCHANGED gateVars

\* captureAndProcessFace resumes after verifyFacesDeepFace
VerifyResult(outcome) ==
  /\ widgetMounted /\ capturePending = "verify"
  /\ capturePending' = "none"
  /\ isCapturing' = FALSE
  /\ step' = IF outcome = "match" THEN step ELSE "ready"
  /\ completeCalls' =
       IF outcome \in {"match", "mismatch"} THEN completeCalls + 1
       ELSE completeCalls
  /\ UNCHANGED <<widgetMounted, mode, hasDescriptor, widgetIsLoading,
                 serverReady, cameraReady, streamRef, initializingRef,
                 healthPending, mediaPending, orphanPending, requested,
                 liveStreams>>
  /\ UNCHANGED gateVars

\* the Cancel button: cleanup(), then onCancel()
Cancel ==
  /\ widgetMounted /\ mode = "verify"
  /\ ~CancelDisabled
  /\ streamRef' = Cleanup(streamRef, liveStreams).ref
  /\ liveStreams' = Cleanup(streamRef, liveStreams).live
  /\ UNCHANGED <<widgetMounted, mode, hasDescriptor, widgetIsLoading,
                 isCapturing, serverReady, cameraReady, step, initializingRef,
                 healthPending, mediaPending, orphanPending, capturePending,
                 requested>>
  /\ UNCHANGED <<gateVars, completeCalls>>

\* the widget leaves the tree (navigation after success or cancel, step
\* change of the form): the unmount effect runs cleanup; calls that are still
\* pending resume later against the dead instance
WidgetUnmount ==
  /\ widgetMounted
  /\ widgetMounted' = FALSE
  /\ streamRef' = Cleanup(streamRef, liveStreams).ref
  /\ liveStreams' = Cleanup(streamRef, liveStreams).live
  /\ orphanPending' = IF mediaPending THEN orphanPending + 1 ELSE orphanPending
  /\ mediaPending' = FALSE
  /\ healthPending' = FALSE
  /\ capturePending' = "none"
  /\ UNCHANGED <<mode, hasDescriptor, widgetIsLoading, isCapturing,
                 serverReady, cameraReady, step, initializingRef, requested>>
  /\ UNCHANGED <<gateVars, completeCalls>>

Modes == {"register", "verify"}
DetectOutcomes == {"ok", "noface", "throw"}
VerifyOutcomes == {"match", "mismatch", "error", "throw"}

\* the gate at rest while the widget is studied on its own
GateAtRest ==
  /\ Init
  /\ fbUser = NoUser /\ enrolled = {}
  /\ variant = VPlain /\ IS_DEEPFACE_REQUIRED
  /\ pathname = PLoginFacial

CameraNext ==
  \/ \E m \in Modes, d \in BOOLEAN : WidgetMount(m, d)
  \/ \E ok \in BOOLEAN : HealthResult(ok)
  \/ \E ok \in BOOLEAN : MediaResult(ok)
  \/ \E ok \in BOOLEAN : OrphanMediaResult(ok)
  \/ LoadedMetadata
  \/ Capture
  \/ \E o \in DetectOutcomes : DetectResult(o)
  \/ \E o \in VerifyOutcomes : VerifyResult(o)
  \/ Cancel
  \/ WidgetUnmount

CameraSpec == GateAtRest /\ [][CameraNext]_vars

(* =============================== claims ================================ *)
Restricted == ~IsUnrestricted(pathname)

Decision == GateDecision(CurCtx)

\* the wrapper has rendered the current context and run its effects
Settled == mounted /\ ~isLoading

\* C1: with loading false the decision is one of the four states and follows
\* the precedence unrestricted route -> CLEAR, no identity -> UNAUTHENTICATED,
\* enrollment not true -> NEEDS_ENROLLMENT, not verified -> NEEDS_VERIFICATION,
\* else CLEAR; needsFacialSetup and needsLoginScan never hold together and
\* both are false without an identity.
C1_DecisionPrecedence ==
  ~isLoading =>
    /\ Decision \in {"UNAUTHENTICATED", "NEEDS_ENROLLMENT",
                     "NEEDS_VERIFICATION", "CLEAR"}
    /\ Decision =
         (IF \E r \in UNRESTRICTED_ROUTES : StartsWith(pathname, r) THEN "CLEAR"
          ELSE IF user = NoUser THEN "UNAUTHENTICATED"
          ELSE IF hasFacialSetup # HTrue THEN "NEEDS_ENROLLMENT"
          ELSE IF ~loginScanFace THEN "NEEDS_VERIFICATION"
          ELSE "CLEAR")
    /\ ~(CurCtx.needsFacialSetup /\ CurCtx.needsLoginScan)
    /\ (user = NoUser => ~CurCtx.needsFacialSetup /\ ~CurCtx.needsLoginScan)
    /\ \A u \in MaybeUser, h \in Tri, l \in BOOLEAN, p \in Routes :
         GateDecision(Ctx(u, h, l, FALSE, p, marker)) =
           (IF IsUnrestricted(p) THEN "CLEAR"
            ELSE IF u = NoUser THEN "UNAUTHENTICATED"
            ELSE IF h # HTrue THEN "NEEDS_ENROLLMENT"
            ELSE IF ~l THEN "NEEDS_VERIFICATION"
            ELSE "CLEAR")

\* an identity whose enrollment status is still unknown, on a restricted route
C1_Witness ==
  /\ ~isLoading /\ user # NoUser /\ hasFacialSetup = HNull /\ Restricted
  /\ Decision = "NEEDS_ENROLLMENT"

\* C2: when the wrapper renders its children on a restricted route with
\* verification required, the decision is CLEAR.
C2_ChildrenOnlyWhenClear ==
  (mounted /\ rendered = "children" /\ Restricted /\ IS_DEEPFACE_REQUIRED)
    => Decision = "CLEAR"

\* C3: a step in which an enrollment lookup fails (success=false or a throw),
\* in the identity callback or in refreshFacialStatus, leaves the enrollment
\* flag different from true, so the decision is not CLEAR / NEEDS_VERIFICATION.
C3_FailedLookupFailsClosed ==
  [][(\E l \in Lookups : \E o \in {"fail", "throw"} :
         CompleteAuthLookup(l, o) \/ CompleteRefresh(l, o))
       => hasFacialSetup' # HTrue]_vars

\* C4: with the deployment flag false the gate issues no redirect, registers
\* no popstate or beforeunload interceptor and pushes no history entry.
C4_FlagOffNoRedirectNoLockout ==
  ~IS_DEEPFACE_REQUIRED =>
    /\ issued = <<>>
    /\ popstate = <<>> /\ beforeunload = <<>>
    /\ pushed = 0

\* C5: a render of the gate together with its effects calls router.replace at
\* most once.
C5_RedirectOnce ==
  pushed = 0 => Len(issued) <= 1

\* the route each decision redirects to
RedirectTarget(d) ==
  IF d = "UNAUTHENTICATED" THEN PLogin
  ELSE IF d = "NEEDS_ENROLLMENT" THEN PSetupFacial
  ELSE PLoginFacial

\* the warning string handleBeforeUnload returns in each blocking state
WarningFor(d) ==
  IF d = "NEEDS_ENROLLMENT" THEN "setup-required" ELSE "scan-face"

Blocking == Decision \in {"NEEDS_ENROLLMENT", "NEEDS_VERIFICATION"}

\* C6 as stated: at most one popstate and one beforeunload listener at any
\* time, and exactly one of each whenever the wrapper is settled in
\* NEEDS_ENROLLMENT or NEEDS_VERIFICATION on a restricted route.
C6_OnePairWheneverBlocking ==
  /\ Len(popstate) <= 1 /\ Len(beforeunload) <= 1
  /\ (Settled /\ Restricted /\ Blocking)
       => (Len(popstate) = 1 /\ Len(beforeunload) = 1)

\* C6 amended: at most one popstate and one beforeunload listener at any
\* time, and exactly one of each whenever the deployment flag is true and the
\* wrapper is settled in NEEDS_ENROLLMENT or NEEDS_VERIFICATION on a
\* restricted route.
C6_OnePairWhenRequired ==
  /\ Len(popstate) <= 1 /\ Len(beforeunload) <= 1
  /\ (IS_DEEPFACE_REQUIRED /\ Settled /\ Restricted /\ Blocking)
       => (Len(popstate) = 1 /\ Len(beforeunload) = 1)

\* the wrapper settled in NEEDS_VERIFICATION on a restricted route, after the
\* redirect of that route was issued, holding exactly the verification pair
C6_Witness ==
  /\ IS_DEEPFACE_REQUIRED /\ Settled /\ Restricted
  /\ Decision = "NEEDS_VERIFICATION"
  /\ hasRedirected /\ issued = <<>>
  /\ popstate = <<PLoginFacial>> /\ beforeunload = <<"scan-face">>

\* C7: outside a settled blocking state on a restricted route (decision CLEAR
\* or UNAUTHENTICATED, unrestricted route, loading, unmounted) no popstate or
\* beforeunload interceptor of the wrapper is registered and navigationBlocked
\* is false.
C7_NoInterceptorUnlessBlocking ==
  (popstate # <<>> \/ beforeunload # <<>> \/ navigationBlocked)
    => (Settled /\ Restricted /\ Blocking)

\* the wrapper was unmounted out of a blocking state and its lockout is gone
C7_Witness ==
  /\ ~mounted /\ variant = VPlain
  /\ ~isLoading /\ Restricted /\ Blocking
  /\ popstate = <<>> /\ beforeunload = <<>> /\ ~navigationBlocked

\* C8: in both verification flows a result with isMatch=false signs the user
\* out.
C8_MismatchSignsOut ==
  [][(PageVerify(FALSE) \/ FormVerify(FALSE))
       => (fbUser' = NoUser /\ user' = NoUser)]_vars

\* C9: the response of an enrollment lookup started by one identity's event
\* is never applied (to hasFacialSetup, profile) while a different identity is
\* the current one.
C9_NoStaleLookupApplied ==
  [][\A l \in Lookups :
       (\E o \in AuthOutcomes : CompleteAuthLookup(l, o))
         => (user = NoUser \/ user = l.uid)]_vars

\* C10: every identity change and every completed signOut leaves loginScanFace
\* false, and loginScanFace becomes true only by a successful verification, so
\* a newly signed-in enrolled identity is in NEEDS_VERIFICATION until then.
C10_IdentityChangeResetsScan ==
  [][/\ (user' # user \/ SignOut("ok")) => ~loginScanFace'
     /\ (loginScanFace' /\ ~loginScanFace) => PageVerify(TRUE)]_vars

\* an enrolled identity after its lookup, not verified in this session
C10_Witness ==
  /\ Settled /\ user # NoUser /\ user \in enrolled /\ hasFacialSetup = HTrue
  /\ InFlightCount = 0 /\ ~loginScanFace /\ Restricted
  /\ Decision = "NEEDS_VERIFICATION"

\* C11: loginScanFace becomes true only by a verification match, and only by
\* a match obtained for the identity that is current when it is delivered.
C11_ScanTrueOnlyForCurrentIdentity ==
  [][(loginScanFace' /\ ~loginScanFace)
       => (PageVerify(TRUE) /\ verifying = user')]_vars

C13_RedirectTargetMatchesDecision ==
  \A i \in 1..Len(issued) :
    /\ Restricted
    /\ Decision \in {"UNAUTHENTICATED", "NEEDS_ENROLLMENT",
                     "NEEDS_VERIFICATION"}
    /\ issued[i] = RedirectTarget(Decision)

\* the redirect of an enrolled, unverified identity on a restricted route
C13_Witness ==
  /\ mounted /\ Restricted /\ Decision = "NEEDS_VERIFICATION"
  /\ pushed = 0 /\ issued = <<PLoginFacial>>

\* C14: once storeFacialData has succeeded for the current user, the
\* in-memory enrollment flag is true when refreshFacialStatus returns, that is
\* before the enrollment flow navigates to a restricted route, so the gate
\* does not evaluate to NEEDS_ENROLLMENT for that user there.
C14_EnrolledBeforeFlowNavigates ==
  [][\A l \in Lookups, o \in RefreshOutcomes :
       (CompleteRefresh(l, o) /\ l.uid = user /\ user \in enrolled)
         => hasFacialSetup' = HTrue]_vars

\* C15: once the capture widget has unmounted, no camera stream it acquired
\* is still live, also when getUserMedia was pending at the unmount and
\* delivered its stream afterwards.
C15_StreamReleasedAfterTeardown ==
  ~widgetMounted => liveStreams = {}

\* C16: with the completion marker in the URL, a signed-in identity without
\* an enrollment record on a restricted route (decision NEEDS_ENROLLMENT) is
\* not shown the children by the wrapper the root layout mounts.
C16_MarkerNeverShowsChildren ==
  (mounted /\ variant = VPlain /\ marker /\ Restricted
     /\ Decision = "NEEDS_ENROLLMENT")
    => rendered # "children"

\* C17: a step in which the wrapper's lockout registers a popstate
\* interceptor also pushes a synthetic history entry.
C17_PushOnInstall ==
  [][(popstate' # <<>> /\ popstate' # popstate) => pushed' >= 1]_vars

\* C18 as stated: in a settled blocking state on a restricted route exactly
\* the beforeunload interceptor with the warning of the current state and
\* the popstate interceptor with the target of the current state are
\* registered, none built for another state.
C18_InterceptorsMatchState ==
  (Settled /\ Restricted /\ Blocking)
    => /\ beforeunload = <<WarningFor(Decision)>>
       /\ popstate = <<RedirectTarget(Decision)>>

\* C18 amended: the same when the deployment flag is true; and whatever the
\* flag, every registered interceptor was built for the current state.
C18_InterceptorsMatchStateWhenRequired ==
  /\ (IS_DEEPFACE_REQUIRED /\ Settled /\ Restricted /\ Blocking)
       => /\ beforeunload = <<WarningFor(Decision)>>
          /\ popstate = <<RedirectTarget(Decision)>>
  /\ \A i \in 1..Len(beforeunload) : beforeunload[i] = WarningFor(Decision)
  /\ \A i \in 1..Len(popstate) : popstate[i] = RedirectTarget(Decision)

\* the flag wrapper in NEEDS_VERIFICATION on /jobs after the enrollment
\* lookup turned NEEDS_ENROLLMENT into it: only the scan-face pair is left
C18_Witness ==
  /\ IS_DEEPFACE_REQUIRED /\ variant = VFlag /\ Settled /\ pathname = PJobs
  /\ Decision = "NEEDS_VERIFICATION" /\ InFlightCount = 0
  /\ beforeunload = <<"scan-face">> /\ popstate = <<PLoginFacial>>

\* C19: while the lookup started by the current identity's event is pending,
\* the gate is LOADING: no redirect has been issued, no interceptor is
\* registered and the children are not rendered.
C19_LoadingWhileLookupPending ==
  (mounted /\ user # NoUser
     /\ inflight[[kind |-> "auth", uid |-> user]] > 0)
    => /\ Decision = "LOADING"
       /\ issued = <<>>
       /\ popstate = <<>> /\ beforeunload = <<>>
       /\ rendered # "children"

\* C20: whenever the gate is LOADING it eventually leaves LOADING (or the
\* document goes away), whatever the outcome of the remote calls of the
\* identity callback: success, error result or throw.
C20_LoadingEventuallyLeft ==
  (mounted /\ isLoading) ~> (~isLoading \/ ~mounted)

\* an enrolled identity whose lookup threw: no profile, enrollment false,
\* nothing pending, the gate settled in NEEDS_ENROLLMENT
C20_Witness ==
  /\ Settled /\ user # NoUser /\ user \in enrolled /\ profile = NoUser
  /\ hasFacialSetup = HFalse /\ InFlightCount = 0
  /\ Restricted /\ Decision = "NEEDS_ENROLLMENT"

\* C21: a step that brings the gate, with verification required, into
\* UNAUTHENTICATED, NEEDS_ENROLLMENT or NEEDS_VERIFICATION on a restricted
\* route (a new decision or a new route) issues the redirect to that state's
\* target; a hasRedirected flag set for an earlier (route, state) does not
\* suppress it.  The redirect effect runs only in that step, so a redirect
\* not issued then is not issued while the (route, state) lasts.
C21_RedirectIssuedOnEntry ==
  [][(/\ mounted' /\ IS_DEEPFACE_REQUIRED /\ Restricted'
      /\ Decision' \in {"UNAUTHENTICATED", "NEEDS_ENROLLMENT",
                        "NEEDS_VERIFICATION"}
      /\ (Decision' # Decision \/ pathname' # pathname))
       => \E i \in 1..Len(issued') : issued'[i] = RedirectTarget(Decision')]_vars

\* C22: the completion marker clears itself: whenever the gate is on screen
\* with facial_completed=true in the URL and the first identity event has
\* been delivered, the 3 s timer that removes the parameter is pending,
\* whether the identity is null, set or has just changed.
C22_MarkerTimerArmed ==
  (mounted /\ authReady /\ marker) => ENABLED MarkerTimer

\* C23: within one widget instance the committed step changes only along
\* INITIALIZING->READY, READY->SCANNING, SCANNING->PROCESSING and
\* PROCESSING->READY.
C23_StepEdgesOnly ==
  [][(widgetMounted /\ widgetMounted' /\ step' # step)
       => <<step, step'>> \in {<<"initializing", "ready">>,
                               <<"ready", "scanning">>,
                               <<"scanning", "processing">>,
                               <<"processing", "ready">>}]_vars

\* C24: every capture error (camera permission denied, no face detected, a
\* detect or verify call that fails or throws) leaves the widget in READY
\* with isCapturing false and makes no onComplete call.
C24_CaptureErrorsReturnToReady ==
  [][(\/ MediaResult(FALSE)
      \/ \E o \in {"noface", "throw"} : DetectResult(o)
      \/ \E o \in {"error", "throw"} : VerifyResult(o))
       => (step' = "ready" /\ ~isCapturing'
           /\ completeCalls' = completeCalls)]_vars

\* C25: a widget whose health check failed stays in INITIALIZING: it has no
\* camera stream and no getUserMedia call pending, no capture is running
\* and it has made no onComplete call.
C25_HealthFailureBlocksCapture ==
  (widgetMounted /\ ~healthPending /\ ~serverReady)
    => /\ step = "initializing" /\ ~cameraReady
       /\ streamRef = 0 /\ ~mediaPending
       /\ capturePending = "none" /\ ~isCapturing
       /\ completeCalls = 0

\* the health check of a mounted widget has failed
C25_Witness ==
  /\ widgetMounted /\ ~healthPending /\ ~serverReady /\ ~widgetIsLoading
  /\ step = "initializing"

\* C26: a capture that is in PROCESSING with isCapturing true and no
\* onComplete call made still has a remote call pending whose answer ends
\* it; this holds in register mode and in verify mode with or without a
\* reference embedding.
C26_ProcessingHasPendingCall ==
  (widgetMounted /\ step = "processing" /\ isCapturing /\ completeCalls = 0)
    => capturePending # "none"

\* C27: a getFacialData response is applied only for the current identity:
\* a response that arrives for an identity other than the one the context
\* holds now is discarded, it neither stores a reference embedding nor ends
\* the loading state of the page.
C27_LateFacialDataDiscarded ==
  [][\A ok \in BOOLEAN :
       (PageLoadResult(ok) /\ facialDataFor # user)
         => /\ UNCHANGED existingFaceDescriptor
            /\ PageIsLoading' = PageIsLoading]_vars

\* C28: for an enrolled user no session cookie is created between the
\* credential sign-in and the successful facial match of that login: while
\* the login form waits for the match of the user it signed in, the identity
\* callback of that user does not get past setServerSession
\* (createSessionCookie); every outcome but "throw" has called it.
C28_NoSessionCookieBeforeMatch ==
  [][\A l \in Lookups, o \in AuthOutcomes \ {"throw"} :
       (CompleteAuthLookup(l, o) /\ l.uid \in enrolled)
         => ~(currentStep = "facial" /\ userData = l.uid)]_vars

\* C29: a capture whose remote call is pending keeps isCapturing true and the
\* step in PROCESSING; while the widget is capturing, scanning or processing
\* neither the Scan Face nor the Cancel action can be triggered; and a
\* capture trigger leads to at most one onComplete call.
C29_OneCaptureInFlight ==
  /\ capturePending # "none" => (isCapturing /\ step = "processing")
  /\ (widgetMounted /\ (isCapturing \/ step \in {"scanning", "processing"}))
       => (~ENABLED Capture /\ ~ENABLED Cancel)
  /\ completeCalls <= 1

\* a verification whose verifyFacesDeepFace call is pending
C29_Witness ==
  /\ widgetMounted /\ mode = "verify" /\ capturePending = "verify"
  /\ isCapturing /\ step = "processing" /\ completeCalls = 0

\* C30: a signOut whose server and client logout both succeed leaves user,
\* profile and hasFacialSetup null and loginScanFace false (UNAUTHENTICATED
\* on a restricted route); a signOut in which either call throws leaves
\* user, profile, hasFacialSetup and loginScanFace as they were.
C30_SignOutAllOrNothing ==
  [][/\ SignOut("ok")
        => /\ user' = NoUser /\ profile' = NoUser
           /\ hasFacialSetup' = HNull /\ ~loginScanFace'
           /\ (Restricted' => Decision' = "UNAUTHENTICATED")
     /\ (SignOut("serverThrows") \/ SignOut("clientThrows"))
        => UNCHANGED <<user, profile, hasFacialSetup, loginScanFace>>]_vars

\* signed out while a lookup of the former identity is still pending: the
\* gate is UNAUTHENTICATED and has issued the redirect to /login
C30_Witness ==
  /\ mounted /\ authReady /\ fbUser = NoUser /\ user = NoUser
  /\ profile = NoUser /\ hasFacialSetup = HNull /\ ~loginScanFace
  /\ InFlightCount > 0 /\ Restricted /\ Decision = "UNAUTHENTICATED"
  /\ issued = <<PLogin>>

====
